---- MODULE Spec2Model ----
(***************************************************************************)
(* libARNetwork ring buffer (Sources/ringBuffer.c): a mutex-protected      *)
(* circular buffer of fixed-size cells with optional overwriting.          *)
(*                                                                         *)
(* Every thread executes the C functions statement by statement; the       *)
(* position of a thread inside a function is th[t].pc.  The two index      *)
(* counters are `unsigned int`: all index arithmetic is modulo             *)
(* IndexModulus (the width is scaled down so that the wrap is reached).    *)
(***************************************************************************)
EXTENDS Integers, Sequences, FiniteSets, TLC

VARIABLES numberOfCell, cellSize, isOverwriting,  \* configuration fields
          indexInput, indexOutput, dataBuffer,    \* counters and storage
          mutex,                                  \* owner of pRingBuff->mutex
          overrun,                                \* a memcpy left dataBuffer
          th,                                     \* per-thread locals
          client,                                 \* per-thread caller state
          queue,                                  \* history: accepted cells not yet popped/discarded
          heap                                    \* allocations, mutex life and the caller's handle

config == <<numberOfCell, cellSize, isOverwriting>>
buffer == <<indexInput, indexOutput, dataBuffer>>
vars == <<numberOfCell, cellSize, isOverwriting, indexInput, indexOutput,
          dataBuffer, mutex, overrun, th, client, queue, heap>>

---------------------------------------------------------------------------
\* Bounds of the model.
IndexBits == 4        \* width of the unsigned index counters
MaxCells == 3         \* numberOfCell ranges over 1..MaxCells
MaxCellSize == 3      \* cellSize ranges over 1..MaxCellSize
MaxCapacity == 6      \* numberOfCell * cellSize is at most MaxCapacity
MaxVal == 2           \* number of distinct cell patterns a caller pushes
NProducers == 2       \* producer threads of the producer/consumer scenario
CellsPerProducer == 2 \* cells each producer pushes
MaxCalls == 2         \* calls each of the concurrent "peer" callers makes

IndexModulus == 2 ^ IndexBits

\* unsigned int arithmetic
UAdd(a, b) == (a + b) % IndexModulus
USub(a, b) == (a - b + IndexModulus) % IndexModulus

---------------------------------------------------------------------------
\* Bytes and cells.
Uninit == 0                                  \* a byte malloc never initialised
PatternByte(v, i) == 16 * v + i              \* byte i of pattern v
Cell(v) == [i \in 1..cellSize |-> PatternByte(v, i)]
NULL == <<>>
DestInit == [i \in 1..cellSize |-> 255]       \* a caller's buffer before the call

Capacity == numberOfCell * cellSize

\* memcpy(dataBuffer + off, cell, cellSize): bytes falling outside the
\* allocation do not land in dataBuffer.
MemcpyIn(buf, off, cell) ==
    [p \in DOMAIN buf |-> IF off <= p /\ p < off + cellSize
                          THEN cell[p - off + 1] ELSE buf[p]]

\* memcpy(dest, dataBuffer + off, cellSize): a byte outside the allocation,
\* or never initialised, has an indeterminate value (junk).
MemcpyOut(buf, off, junk) ==
    [i \in 1..cellSize |->
        IF off + i - 1 < Capacity /\ buf[off + i - 1] # Uninit
        THEN buf[off + i - 1] ELSE junk[i]]

OutOfBounds(off) == off + cellSize > Capacity
NeedsJunk(buf, off) ==
    \E i \in 1..cellSize : off + i - 1 >= Capacity \/ buf[off + i - 1] = Uninit
JunkBytes == {Uninit, PatternByte(1, 1)}      \* representatives of an indeterminate byte
JunkCells(buf, off) ==
    IF NeedsJunk(buf, off) THEN {[i \in 1..cellSize |-> b] : b \in JunkBytes}
    ELSE {DestInit}

---------------------------------------------------------------------------
\* ringBuffer.h (inline helpers, called with the mutex held)
NETWORK_RingBuffGetFreeCellNb ==
    numberOfCell - (USub(indexInput, indexOutput) \div cellSize)

NETWORK_RingBuffIsEmpty == indexInput = indexOutput

---------------------------------------------------------------------------
\* Thread locals.
NoEntry == [indexInput |-> 0, indexOutput |-> 0, dataBuffer |-> <<>>]
Snapshot == [indexInput |-> indexInput, indexOutput |-> indexOutput,
             dataBuffer |-> dataBuffer]

Idle == [pc |-> "idle", pNewData |-> NULL, dest |-> NULL,
         error |-> "NETWORK_OK", buffPointor |-> 0, entry |-> NoEntry,
         popped |-> NULL, iindex |-> 0, shown |-> <<>>, printed |-> <<>>]

Producers == 1..NProducers
Consumer == NProducers + 1
Threads == Producers \cup {Consumer}
Unlocked == -1

sal_mutex_lock(t) == mutex = Unlocked /\ mutex' = t
sal_mutex_unlock(t) == mutex' = IF mutex = t THEN Unlocked ELSE mutex

---------------------------------------------------------------------------
\* Callers.  A caller of role "any" calls any operation with any argument,
\* any number of times, and remembers in lastPush the cell of its previous
\* call when that call was a PushBack that found the buffer empty and
\* succeeded.  A "peer" does the same for MaxCalls calls.  A "producer"
\* pushes the cells of todo in order; a "consumer" collects in got the
\* cells its successful PopFront calls returned.
AnyCaller == [role |-> "any", todo |-> <<>>, got |-> <<>>, lastPush |-> NULL, calls |-> 0]
NoCaller == [AnyCaller EXCEPT !.role = "none"]
PeerCaller == [AnyCaller EXCEPT !.role = "peer"]

CanCall(t) ==
    /\ th[t].pc = "idle"
    /\ \/ client[t].role = "any"
       \/ client[t].role = "peer" /\ client[t].calls < MaxCalls

Returned(t) ==
    LET c == client[t]
        ok == th[t].error = "NETWORK_OK"
        op == th[t].pc
    IN CASE c.role = "producer" ->
               [c EXCEPT !.todo = IF ok THEN Tail(@) ELSE @]
         [] c.role = "consumer" ->
               [c EXCEPT !.got = IF ok THEN Append(@, th[t].dest) ELSE @]
         [] c.role = "peer" ->
               [c EXCEPT !.calls = @ + 1]
         [] OTHER ->
               [c EXCEPT !.lastPush =
                   IF op = "push_unlock" /\ ok
                      /\ th[t].entry.indexInput = th[t].entry.indexOutput
                   THEN th[t].pNewData ELSE NULL]

---------------------------------------------------------------------------
\* Allocations.  object is the network_ringBuffer_t block, storage the
\* dataBuffer block ("none": never allocated, "live", "freed"); mutexState is
\* the life of pRingBuff->mutex; handle is the caller's pointer variable;
\* frees counts the free and sal_mutex_destroy calls made on the blocks of
\* the latest construction; last is the outcome of the latest lifecycle call.
NoFrees == [object |-> 0, storage |-> 0, mutex |-> 0]
NoHeap == [object |-> "none", storage |-> "none", mutexState |-> "none",
           handle |-> "NULL", frees |-> NoFrees, last |-> "none"]
LiveHeap == [object |-> "live", storage |-> "live", mutexState |-> "initialised",
             handle |-> "object", frees |-> NoFrees, last |-> "new_ok"]

---------------------------------------------------------------------------
\* NETWORK_NewRingBufferWithOverwriting: state after a successful construction.
NewRingBuffer ==
    /\ numberOfCell \in 1..MaxCells
    /\ cellSize \in 1..MaxCellSize
    /\ numberOfCell * cellSize <= MaxCapacity
    /\ numberOfCell * cellSize < IndexModulus     \* the byte count fits the counters
    /\ isOverwriting \in {0, 1}
    /\ indexInput = 0
    /\ indexOutput = 0
    /\ mutex = Unlocked
    /\ dataBuffer = [p \in 0..(numberOfCell * cellSize - 1) |-> Uninit]
    /\ overrun = FALSE
    /\ queue = <<>>
    /\ heap = LiveHeap

Init ==
    /\ NewRingBuffer
    /\ th = [t \in Threads |-> Idle]
    /\ client = [t \in Threads |-> IF t = 1 THEN AnyCaller ELSE NoCaller]

---------------------------------------------------------------------------
\* NETWORK_RingBuffPushBack
CallPushBack(t, v) ==
    /\ CanCall(t)
    /\ th' = [th EXCEPT ![t] = [Idle EXCEPT !.pc = "push_lock", !.pNewData = Cell(v)]]
    /\ UNCHANGED <<config, heap, buffer, mutex, overrun, client, queue>>

\* mutant: PushBack enters its critical section without taking the mutex
PushBackLock_NoLock(t) ==
    /\ th[t].pc = "push_lock"
    /\ th' = [th EXCEPT ![t].pc = "push_check", ![t].entry = Snapshot]
    /\ UNCHANGED <<config, heap, buffer, mutex, overrun, client, queue>>

PushBackLock(t) ==
    /\ th[t].pc = "push_lock"
    /\ sal_mutex_lock(t)
    /\ th' = [th EXCEPT ![t].pc = "push_check", ![t].entry = Snapshot]
    /\ UNCHANGED <<config, heap, buffer, overrun, client, queue>>

\* mutant: the free-cell test of line 107 is dropped
PushBackCheck_NoFullTest(t) ==
    /\ th[t].pc = "push_check"
    /\ th' = [th EXCEPT ![t].pc = "push_full"]
    /\ UNCHANGED <<config, heap, buffer, mutex, overrun, client, queue>>

PushBackCheck(t) ==
    /\ th[t].pc = "push_check"
    /\ th' = IF NETWORK_RingBuffGetFreeCellNb # 0 \/ isOverwriting # 0
             THEN [th EXCEPT ![t].pc = "push_full"]
             ELSE [th EXCEPT ![t].pc = "push_unlock",
                             ![t].error = "NETWORK_ERROR_BUFFER_SIZE"]
    /\ UNCHANGED <<config, heap, buffer, mutex, overrun, client, queue>>

\* mutant: a full buffer is written without discarding the oldest cell
PushBackFull_NoDiscard(t) ==
    /\ th[t].pc = "push_full"
    /\ th' = [th EXCEPT ![t].pc = "push_copy"]
    /\ UNCHANGED <<config, heap, buffer, mutex, overrun, client, queue>>

\* mutant: an overwriting buffer discards its oldest cell on every PushBack
PushBackFull_AlwaysDiscard(t) ==
    /\ th[t].pc = "push_full"
    /\ IF NETWORK_RingBuffGetFreeCellNb = 0 \/ isOverwriting # 0
       THEN /\ indexOutput' = UAdd(indexOutput, cellSize)
            /\ queue' = IF queue = <<>> THEN queue ELSE Tail(queue)
       ELSE UNCHANGED <<indexOutput, queue>>
    /\ th' = [th EXCEPT ![t].pc = "push_copy"]
    /\ UNCHANGED <<config, heap, indexInput, dataBuffer, mutex, overrun, client>>

PushBackFull(t) ==
    /\ th[t].pc = "push_full"
    /\ IF NETWORK_RingBuffGetFreeCellNb = 0
       THEN /\ indexOutput' = UAdd(indexOutput, cellSize)
            /\ queue' = IF queue = <<>> THEN queue ELSE Tail(queue)
       ELSE UNCHANGED <<indexOutput, queue>>
    /\ th' = [th EXCEPT ![t].pc = "push_copy"]
    /\ UNCHANGED <<config, heap, indexInput, dataBuffer, mutex, overrun, client>>

PushBackCopy(t) ==
    /\ th[t].pc = "push_copy"
    /\ LET off == indexInput % Capacity
       IN /\ dataBuffer' = MemcpyIn(dataBuffer, off, th[t].pNewData)
          /\ overrun' = (overrun \/ OutOfBounds(off))
          /\ th' = [th EXCEPT ![t].pc = "push_inc", ![t].buffPointor = off]
    /\ UNCHANGED <<config, heap, indexInput, indexOutput, mutex, client, queue>>

\* mutant: the cell is copied but indexInput is not advanced
PushBackInc_NoAdvance(t) ==
    /\ th[t].pc = "push_inc"
    /\ queue' = Append(queue, th[t].pNewData)
    /\ th' = [th EXCEPT ![t].pc = "push_unlock"]
    /\ UNCHANGED <<config, heap, indexInput, indexOutput, dataBuffer, mutex, overrun, client>>

PushBackInc(t) ==
    /\ th[t].pc = "push_inc"
    /\ indexInput' = UAdd(indexInput, cellSize)
    /\ queue' = Append(queue, th[t].pNewData)
    /\ th' = [th EXCEPT ![t].pc = "push_unlock"]
    /\ UNCHANGED <<config, heap, indexOutput, dataBuffer, mutex, overrun, client>>

PushBackUnlock(t) ==
    /\ th[t].pc = "push_unlock"
    /\ sal_mutex_unlock(t)
    /\ th' = [th EXCEPT ![t] = Idle]
    /\ client' = [client EXCEPT ![t] = Returned(t)]
    /\ UNCHANGED <<config, heap, buffer, overrun, queue>>

---------------------------------------------------------------------------
\* NETWORK_RingBuffPopFront
CallPopFront(t, withDest) ==
    /\ CanCall(t)
    /\ th' = [th EXCEPT ![t] = [Idle EXCEPT !.pc = "pop_lock",
                                   !.dest = IF withDest THEN DestInit ELSE NULL]]
    /\ UNCHANGED <<config, heap, buffer, mutex, overrun, client, queue>>

PopFrontLock(t) ==
    /\ th[t].pc = "pop_lock"
    /\ sal_mutex_lock(t)
    /\ th' = [th EXCEPT ![t].pc = "pop_check", ![t].entry = Snapshot]
    /\ UNCHANGED <<config, heap, buffer, overrun, client, queue>>

\* mutant: the emptiness test of line 141 is dropped
PopFrontCheck_NoEmptyTest(t) ==
    /\ th[t].pc = "pop_check"
    /\ th' = [th EXCEPT ![t].pc = "pop_copy"]
    /\ UNCHANGED <<config, heap, buffer, mutex, overrun, client, queue>>

PopFrontCheck(t) ==
    /\ th[t].pc = "pop_check"
    /\ th' = IF ~NETWORK_RingBuffIsEmpty
             THEN [th EXCEPT ![t].pc = "pop_copy"]
             ELSE [th EXCEPT ![t].pc = "pop_unlock",
                             ![t].error = "NETWORK_ERROR_BUFFER_EMPTY"]
    /\ UNCHANGED <<config, heap, buffer, mutex, overrun, client, queue>>

PopFrontCopy(t) ==
    /\ th[t].pc = "pop_copy"
    /\ LET off == indexOutput % Capacity
       IN IF th[t].dest # NULL
          THEN \E junk \in JunkCells(dataBuffer, off) :
                  th' = [th EXCEPT ![t].pc = "pop_inc", ![t].buffPointor = off,
                                   ![t].dest = MemcpyOut(dataBuffer, off, junk)]
          ELSE th' = [th EXCEPT ![t].pc = "pop_inc"]
    /\ UNCHANGED <<config, heap, buffer, mutex, overrun, client, queue>>

\* mutant: the cell is consumed only when a destination was supplied
PopFrontInc_NeedsDest(t) ==
    /\ th[t].pc = "pop_inc"
    /\ indexOutput' = IF th[t].dest # NULL THEN UAdd(indexOutput, cellSize) ELSE indexOutput
    /\ queue' = IF queue = <<>> \/ th[t].dest = NULL THEN queue ELSE Tail(queue)
    /\ th' = [th EXCEPT ![t].pc = "pop_unlock",
                        ![t].popped = IF queue = <<>> THEN NULL ELSE Head(queue)]
    /\ UNCHANGED <<config, heap, indexInput, dataBuffer, mutex, overrun, client>>

PopFrontInc(t) ==
    /\ th[t].pc = "pop_inc"
    /\ indexOutput' = UAdd(indexOutput, cellSize)
    /\ queue' = IF queue = <<>> THEN queue ELSE Tail(queue)
    /\ th' = [th EXCEPT ![t].pc = "pop_unlock",
                        ![t].popped = IF queue = <<>> THEN NULL ELSE Head(queue)]
    /\ UNCHANGED <<config, heap, indexInput, dataBuffer, mutex, overrun, client>>

PopFrontUnlock(t) ==
    /\ th[t].pc = "pop_unlock"
    /\ sal_mutex_unlock(t)
    /\ th' = [th EXCEPT ![t] = Idle]
    /\ client' = [client EXCEPT ![t] = Returned(t)]
    /\ UNCHANGED <<config, heap, buffer, overrun, queue>>

---------------------------------------------------------------------------
\* NETWORK_RingBuffFront
CallFront(t) ==
    /\ CanCall(t)
    /\ th' = [th EXCEPT ![t] = [Idle EXCEPT !.pc = "front_lock", !.dest = DestInit]]
    /\ UNCHANGED <<config, heap, buffer, mutex, overrun, client, queue>>

FrontLock(t) ==
    /\ th[t].pc = "front_lock"
    /\ sal_mutex_lock(t)
    /\ th' = [th EXCEPT ![t].pc = "front_ptr", ![t].entry = Snapshot]
    /\ UNCHANGED <<config, heap, buffer, overrun, client, queue>>

FrontPointer(t) ==
    /\ th[t].pc = "front_ptr"
    /\ th' = [th EXCEPT ![t].pc = "front_copy",
                        ![t].buffPointor = indexOutput % Capacity]
    /\ UNCHANGED <<config, heap, buffer, mutex, overrun, client, queue>>

FrontCopy(t) ==
    /\ th[t].pc = "front_copy"
    /\ IF ~NETWORK_RingBuffIsEmpty
       THEN \E junk \in JunkCells(dataBuffer, th[t].buffPointor) :
               th' = [th EXCEPT ![t].pc = "front_unlock",
                                ![t].dest = MemcpyOut(dataBuffer, th[t].buffPointor, junk)]
       ELSE th' = [th EXCEPT ![t].pc = "front_unlock",
                             ![t].error = "NETWORK_ERROR_BUFFER_SIZE"]
    /\ UNCHANGED <<config, heap, buffer, mutex, overrun, client, queue>>

FrontUnlock(t) ==
    /\ th[t].pc = "front_unlock"
    /\ sal_mutex_unlock(t)
    /\ th' = [th EXCEPT ![t] = Idle]
    /\ client' = [client EXCEPT ![t] = Returned(t)]
    /\ UNCHANGED <<config, heap, buffer, overrun, queue>>

---------------------------------------------------------------------------
\* NETWORK_RingBuffPrint
CallPrint(t) ==
    /\ CanCall(t)
    /\ th' = [th EXCEPT ![t] = [Idle EXCEPT !.pc = "print_lock"]]
    /\ UNCHANGED <<config, heap, buffer, mutex, overrun, client, queue>>

PrintLock(t) ==
    /\ th[t].pc = "print_lock"
    /\ sal_mutex_lock(t)
    /\ th' = [th EXCEPT ![t].pc = "print_state", ![t].entry = Snapshot]
    /\ UNCHANGED <<config, heap, buffer, overrun, client, queue>>

PrintState(t) ==
    /\ th[t].pc = "print_state"
    /\ th' = [th EXCEPT ![t].pc = "print_unlock",
                        ![t].shown = <<indexOutput, indexInput>>]
    /\ UNCHANGED <<config, heap, buffer, mutex, overrun, client, queue>>

\* mutant: Print calls DataPrint without releasing the mutex first
PrintUnlock_NoUnlock(t) ==
    /\ th[t].pc = "print_unlock"
    /\ th' = [th EXCEPT ![t].pc = "data_lock"]
    /\ UNCHANGED <<config, heap, buffer, mutex, overrun, client, queue>>

\* the unlock of line 204 and the call of NETWORK_RingBuffDataPrint
PrintUnlock(t) ==
    /\ th[t].pc = "print_unlock"
    /\ sal_mutex_unlock(t)
    /\ th' = [th EXCEPT ![t].pc = "data_lock"]
    /\ UNCHANGED <<config, heap, buffer, overrun, client, queue>>

\* NETWORK_RingBuffDataPrint
CallDataPrint(t) ==
    /\ CanCall(t)
    /\ th' = [th EXCEPT ![t] = [Idle EXCEPT !.pc = "data_lock"]]
    /\ UNCHANGED <<config, heap, buffer, mutex, overrun, client, queue>>

\* mutant: DataPrint reads the buffer without taking the mutex
DataPrintLock_NoLock(t) ==
    /\ th[t].pc = "data_lock"
    /\ th' = [th EXCEPT ![t].pc = "data_loop", ![t].entry = Snapshot,
                        ![t].iindex = indexOutput]
    /\ UNCHANGED <<config, heap, buffer, mutex, overrun, client, queue>>

DataPrintLock(t) ==
    /\ th[t].pc = "data_lock"
    /\ sal_mutex_lock(t)
    /\ th' = [th EXCEPT ![t].pc = "data_loop", ![t].entry = Snapshot,
                        ![t].iindex = indexOutput]
    /\ UNCHANGED <<config, heap, buffer, overrun, client, queue>>

\* mutant: the dump consumes each cell it prints
DataPrintLoop_Consumes(t) ==
    /\ th[t].pc = "data_loop"
    /\ IF th[t].iindex < indexInput
       THEN LET off == th[t].iindex % Capacity
            IN /\ \E junk \in JunkCells(dataBuffer, off) :
                    th' = [th EXCEPT ![t].printed = Append(@, MemcpyOut(dataBuffer, off, junk)),
                                     ![t].iindex = UAdd(@, cellSize)]
               /\ indexOutput' = UAdd(indexOutput, cellSize)
       ELSE /\ th' = [th EXCEPT ![t].pc = "data_unlock"]
            /\ UNCHANGED indexOutput
    /\ UNCHANGED <<config, heap, indexInput, dataBuffer, mutex, overrun, client, queue>>

\* one evaluation of the loop condition (iindex is converted to unsigned
\* for the comparison) and, when it holds, one iteration of the body
DataPrintLoop(t) ==
    /\ th[t].pc = "data_loop"
    /\ IF th[t].iindex < indexInput
       THEN LET off == th[t].iindex % Capacity
            IN \E junk \in JunkCells(dataBuffer, off) :
                  th' = [th EXCEPT ![t].printed = Append(@, MemcpyOut(dataBuffer, off, junk)),
                                   ![t].iindex = UAdd(@, cellSize)]
       ELSE th' = [th EXCEPT ![t].pc = "data_unlock"]
    /\ UNCHANGED <<config, heap, buffer, mutex, overrun, client, queue>>

DataPrintUnlock(t) ==
    /\ th[t].pc = "data_unlock"
    /\ sal_mutex_unlock(t)
    /\ th' = [th EXCEPT ![t] = Idle]
    /\ client' = [client EXCEPT ![t] = Returned(t)]
    /\ UNCHANGED <<config, heap, buffer, overrun, queue>>

---------------------------------------------------------------------------
PushBackStep(t) ==
    \/ PushBackLock(t) \/ PushBackCheck(t) \/ PushBackFull(t)
    \/ PushBackCopy(t) \/ PushBackInc(t) \/ PushBackUnlock(t)

PopFrontStep(t) ==
    \/ PopFrontLock(t) \/ PopFrontCheck(t) \/ PopFrontCopy(t)
    \/ PopFrontInc(t) \/ PopFrontUnlock(t)

FrontStep(t) ==
    \/ FrontLock(t) \/ FrontPointer(t) \/ FrontCopy(t) \/ FrontUnlock(t)

PrintStep(t) ==
    \/ PrintLock(t) \/ PrintState(t) \/ PrintUnlock(t)
    \/ DataPrintLock(t) \/ DataPrintLoop(t) \/ DataPrintUnlock(t)

Next ==
    \E t \in Threads :
        \/ \E v \in 1..MaxVal : CallPushBack(t, v)
        \/ \E w \in BOOLEAN : CallPopFront(t, w)
        \/ CallFront(t)
        \/ CallPrint(t)
        \/ CallDataPrint(t)
        \/ PushBackStep(t)
        \/ PopFrontStep(t)
        \/ FrontStep(t)
        \/ PrintStep(t)

Spec == Init /\ [][Next]_vars

---------------------------------------------------------------------------
\* Two threads calling any operation concurrently on one buffer.
InitThreads ==
    /\ NewRingBuffer
    /\ numberOfCell * cellSize <= MaxCells
    /\ th = [t \in Threads |-> Idle]
    /\ client = [t \in Threads |-> IF t \in {1, 2} THEN PeerCaller ELSE NoCaller]

SpecThreads == InitThreads /\ [][Next]_vars

\* Two threads on a buffer of one one-byte cell (empty or full) under a fair
\* scheduler: a thread that is inside a call and can take its next
\* statement eventually takes it.  Calls are
\* not forced, and sal_mutex_lock is the only statement that can wait.
ThreadStep(t) == PushBackStep(t) \/ PopFrontStep(t) \/ FrontStep(t) \/ PrintStep(t)

InitFair ==
    /\ InitThreads
    /\ cellSize = 1
    /\ numberOfCell = 1

SpecFair == InitFair /\ [][Next]_vars /\ \A t \in Threads : WF_vars(ThreadStep(t))

\* Either population of callers: one caller without a bound on its calls
\* (the index counters wrap), or two bounded callers running concurrently.
InitAll == Init \/ InitThreads
SpecAll == InitAll /\ [][Next]_vars

---------------------------------------------------------------------------
\* Life cycle: a caller constructs a buffer (either malloc may fail), one
\* thread uses it for MaxCalls calls, and the caller deletes it through the
\* address of its handle while no call is in progress; it may delete again,
\* or pass a null address, and may construct anew once its handle is null.

\* the variables when there is no ring buffer object
NoObject ==
    /\ numberOfCell = 0
    /\ cellSize = 0
    /\ isOverwriting = 0
    /\ indexInput = 0
    /\ indexOutput = 0
    /\ dataBuffer = <<>>
    /\ mutex = Unlocked
    /\ overrun = FALSE
    /\ queue = <<>>

InitLife ==
    /\ NoObject
    /\ heap = NoHeap
    /\ th = [t \in Threads |-> Idle]
    /\ client = [t \in Threads |-> NoCaller]

\* lines 84-93 on a handle that is not null: the mutex is destroyed, both
\* blocks are handed to free (free(NULL) does nothing) and the handle is reset
DeleteLive(h) ==
    [h EXCEPT !.mutexState = "destroyed",
              !.storage = IF @ = "none" THEN @ ELSE "freed",
              !.object = "freed",
              !.handle = "NULL",
              !.frees = [mutex |-> @.mutex + 1,
                         storage |-> @.storage + (IF h.storage = "none" THEN 0 ELSE 1),
                         object |-> @.object + 1]]

\* mutant: a failed storage allocation is not cleaned up
NETWORK_NewRingBufferWithOverwriting_NoCleanup(n, c, o, objectOk, storageOk) ==
    /\ heap.handle = "NULL"
    /\ \A t \in Threads : th[t].pc = "idle"
    /\ IF ~objectOk
       THEN /\ heap' = [NoHeap EXCEPT !.last = "new_fail_object"]
            /\ UNCHANGED <<config, buffer, client>>
       ELSE /\ numberOfCell' = n
            /\ cellSize' = c
            /\ isOverwriting' = o
            /\ indexInput' = 0
            /\ indexOutput' = 0
            /\ dataBuffer' = IF storageOk THEN [p \in 0..(n * c - 1) |-> Uninit] ELSE <<>>
            /\ heap' = [LiveHeap EXCEPT !.storage = IF storageOk THEN "live" ELSE "none",
                                        !.last = IF storageOk THEN "new_ok" ELSE "new_fail_storage"]
            /\ client' = IF storageOk THEN [client EXCEPT ![1] = PeerCaller] ELSE client
    /\ UNCHANGED <<mutex, overrun, th, queue>>

NETWORK_NewRingBufferWithOverwriting(n, c, o, objectOk, storageOk) ==
    /\ heap.handle = "NULL"
    /\ \A t \in Threads : th[t].pc = "idle"
    /\ IF ~objectOk
       THEN \* line 52 returned NULL: nothing else is executed
            /\ heap' = [NoHeap EXCEPT !.last = "new_fail_object"]
            /\ UNCHANGED <<config, buffer, client>>
       ELSE IF ~storageOk
       THEN \* lines 56-62, then NETWORK_DeleteRingBuffer(&pRingBuff) at line 66
            /\ heap' = [DeleteLive([LiveHeap EXCEPT !.storage = "none"])
                           EXCEPT !.last = "new_fail_storage"]
            /\ UNCHANGED <<config, buffer, client>>
       ELSE /\ numberOfCell' = n
            /\ cellSize' = c
            /\ isOverwriting' = o
            /\ indexInput' = 0
            /\ indexOutput' = 0
            /\ dataBuffer' = [p \in 0..(n * c - 1) |-> Uninit]
            /\ heap' = LiveHeap
            /\ client' = [client EXCEPT ![1] = PeerCaller]
    /\ UNCHANGED <<mutex, overrun, th, queue>>

\* mutant: line 93 is dropped, the caller's handle keeps the stale pointer
NETWORK_DeleteRingBuffer_KeepHandle(nullAddress) ==
    /\ \A t \in Threads : th[t].pc = "idle"
    /\ IF nullAddress
       THEN /\ heap' = [heap EXCEPT !.last = "delete_null_address"]
            /\ UNCHANGED <<config, buffer, overrun, client, queue>>
       ELSE IF heap.handle = "NULL"
       THEN /\ heap' = [heap EXCEPT !.last = "delete_null_handle"]
            /\ UNCHANGED <<config, buffer, overrun, client, queue>>
       ELSE /\ heap' = [DeleteLive(heap) EXCEPT !.handle = heap.handle,
                                                !.last = "delete_live"]
            /\ numberOfCell' = 0
            /\ cellSize' = 0
            /\ isOverwriting' = 0
            /\ indexInput' = 0
            /\ indexOutput' = 0
            /\ dataBuffer' = <<>>
            /\ overrun' = FALSE
            /\ queue' = <<>>
            /\ client' = [t \in Threads |-> NoCaller]
    /\ UNCHANGED <<mutex, th>>

\* NETWORK_DeleteRingBuffer(ppRingBuff); nullAddress: ppRingBuff is NULL
NETWORK_DeleteRingBuffer(nullAddress) ==
    /\ \A t \in Threads : th[t].pc = "idle"
    /\ IF nullAddress
       THEN /\ heap' = [heap EXCEPT !.last = "delete_null_address"]
            /\ UNCHANGED <<config, buffer, overrun, client, queue>>
       ELSE IF heap.handle = "NULL"
       THEN \* only line 93 is executed
            /\ heap' = [heap EXCEPT !.last = "delete_null_handle"]
            /\ UNCHANGED <<config, buffer, overrun, client, queue>>
       ELSE /\ heap' = [DeleteLive(heap) EXCEPT !.last = "delete_live"]
            /\ numberOfCell' = 0
            /\ cellSize' = 0
            /\ isOverwriting' = 0
            /\ indexInput' = 0
            /\ indexOutput' = 0
            /\ dataBuffer' = <<>>
            /\ overrun' = FALSE
            /\ queue' = <<>>
            /\ client' = [t \in Threads |-> NoCaller]
    /\ UNCHANGED <<mutex, th>>

NextLife ==
    \/ \E n \in 1..MaxCells, c \in 1..MaxCellSize, o \in {0, 1}, objectOk, storageOk \in BOOLEAN :
           /\ n * c <= MaxCapacity
           /\ NETWORK_NewRingBufferWithOverwriting(n, c, o, objectOk, storageOk)
    \/ \E nullAddress \in BOOLEAN : NETWORK_DeleteRingBuffer(nullAddress)
    \/ Next

SpecLife == InitLife /\ [][NextLife]_vars

---------------------------------------------------------------------------
\* Producer/consumer scenario: NProducers threads push CellsPerProducer
\* distinct cells each into a fresh non-overwriting buffer that can hold
\* them all; one consumer pops until it has received as many cells.
TotalCells == NProducers * CellsPerProducer
ProducerValues(p) == [k \in 1..CellsPerProducer |-> (p - 1) * CellsPerProducer + k]

InitConc ==
    /\ numberOfCell = TotalCells
    /\ cellSize \in 2..MaxCellSize
    /\ numberOfCell * cellSize < IndexModulus
    /\ isOverwriting = 0
    /\ indexInput = 0
    /\ indexOutput = 0
    /\ mutex = Unlocked
    /\ dataBuffer = [p \in 0..(numberOfCell * cellSize - 1) |-> Uninit]
    /\ overrun = FALSE
    /\ queue = <<>>
    /\ heap = LiveHeap
    /\ th = [t \in Threads |-> Idle]
    /\ client = [t \in Threads |->
                   IF t = Consumer
                   THEN [AnyCaller EXCEPT !.role = "consumer"]
                   ELSE [AnyCaller EXCEPT !.role = "producer", !.todo = ProducerValues(t)]]

ProducerCall(t) ==
    /\ th[t].pc = "idle"
    /\ client[t].role = "producer"
    /\ client[t].todo # <<>>
    /\ th' = [th EXCEPT ![t] = [Idle EXCEPT !.pc = "push_lock",
                                   !.pNewData = Cell(Head(client[t].todo))]]
    /\ UNCHANGED <<config, heap, buffer, mutex, overrun, client, queue>>

ConsumerCall(t) ==
    /\ th[t].pc = "idle"
    /\ client[t].role = "consumer"
    /\ Len(client[t].got) < TotalCells
    /\ th' = [th EXCEPT ![t] = [Idle EXCEPT !.pc = "pop_lock", !.dest = DestInit]]
    /\ UNCHANGED <<config, heap, buffer, mutex, overrun, client, queue>>

NextConc ==
    \E t \in Threads :
        \/ ProducerCall(t)
        \/ ConsumerCall(t)
        \/ PushBackStep(t)
        \/ PopFrontStep(t)

SpecConc == InitConc /\ [][NextConc]_vars

---------------------------------------------------------------------------
\* Properties.

At(t, pc) == th[t].pc = pc
Ok(t) == th[t].error = "NETWORK_OK"
Occupied == USub(indexInput, indexOutput)
EntryOccupied(t) == USub(th[t].entry.indexInput, th[t].entry.indexOutput)
BufferAsAtEntry(t) == Snapshot = th[t].entry

\* the cells of the logical range [indexOutput, indexInput), oldest first,
\* as PopFront would copy them
Contents ==
    [k \in 1..(Occupied \div cellSize) |->
        MemcpyOut(dataBuffer, UAdd(indexOutput, (k - 1) * cellSize) % Capacity,
                  [i \in 1..cellSize |-> Uninit])]

(* C1: in every reachable state, also inside a critical section and for      *)
(* any interleaving, the occupied byte count indexInput - indexOutput (the   *)
(* unsigned difference the code computes) is between 0 and numberOfCell *    *)
(* cellSize and is a multiple of cellSize.                                   *)
CapacityInvariant ==
    /\ 0 <= Occupied
    /\ Occupied <= Capacity
    /\ Occupied % cellSize = 0

\* a full buffer whose indexInput has wrapped and whose indexOutput has not
CapacityWitness ==
    /\ mutex = Unlocked
    /\ Occupied = Capacity
    /\ indexInput < indexOutput

(* C2: on a non-overwriting buffer every successful PopFront returns the     *)
(* oldest cell accepted by PushBack and not yet popped: the k-th successful  *)
(* pop returns the k-th successfully pushed cell.                            *)
FifoOrdering ==
    isOverwriting = 0 =>
        \A t \in Threads :
            (At(t, "pop_unlock") /\ Ok(t) /\ th[t].dest # NULL)
                => th[t].dest = th[t].popped

(* C3: PushBack on a full non-overwriting buffer returns                     *)
(* NETWORK_ERROR_BUFFER_SIZE (the spec's BUFFER_FULL) and leaves indexInput, *)
(* indexOutput and every byte of dataBuffer as they were at entry.           *)
FullRejection ==
    \A t \in Threads :
        (At(t, "push_unlock") /\ isOverwriting = 0 /\ EntryOccupied(t) = Capacity)
            => /\ th[t].error = "NETWORK_ERROR_BUFFER_SIZE"
               /\ BufferAsAtEntry(t)

FullRejectionWitness ==
    \E t \in Threads :
        /\ At(t, "push_unlock")
        /\ isOverwriting = 0
        /\ numberOfCell = 2
        /\ EntryOccupied(t) = Capacity
        /\ th[t].error = "NETWORK_ERROR_BUFFER_SIZE"
        /\ Len(queue) = 2

(* C4: on an overwriting buffer every PushBack succeeds, and a PushBack on a *)
(* full buffer discards exactly the oldest cell and stores the new one as    *)
(* the newest: whenever no call is in progress the buffer holds, in push     *)
(* order, the last min(k, numberOfCell) cells not yet popped.                *)
OverwriteKeepsNewest ==
    isOverwriting # 0 =>
        /\ \A t \in Threads : At(t, "push_unlock") => Ok(t)
        /\ mutex = Unlocked => Contents = queue

(* C5: with NProducers producers pushing CellsPerProducer distinct cells     *)
(* each and one consumer popping until it has that many successes, every     *)
(* popped cell is one of the pushed cells verbatim, no cell is received      *)
(* twice, and when the consumer is done it has received every pushed cell.   *)
PushedCells == {Cell(v) : v \in 1..TotalCells}

ExactlyOnce ==
    LET got == client[Consumer].got
    IN /\ \A k \in 1..Len(got) : got[k] \in PushedCells
       /\ \A j, k \in 1..Len(got) : j # k => got[j] # got[k]
       /\ Len(got) = TotalCells => {got[k] : k \in 1..Len(got)} = PushedCells

\* the consumer is done and received a cell of the last producer first
ExactlyOnceWitness ==
    LET got == client[Consumer].got
    IN /\ Len(got) = TotalCells
       /\ At(Consumer, "idle")
       /\ cellSize > 1
       /\ got[1] = Cell(ProducerValues(NProducers)[1])
       /\ got[TotalCells] = Cell(ProducerValues(1)[CellsPerProducer])

(* C6: at most one thread is inside a critical section, and a thread that    *)
(* is at a statement reading or writing indexInput, indexOutput or           *)
(* dataBuffer (in PushBack, PopFront, Front, Print or DataPrint) holds the   *)
(* mutex.                                                                    *)
LockedPcs ==
    {"push_check", "push_full", "push_copy", "push_inc", "push_unlock",
     "pop_check", "pop_copy", "pop_inc", "pop_unlock",
     "front_ptr", "front_copy", "front_unlock",
     "print_state", "print_unlock", "data_loop", "data_unlock"}

MutualExclusion ==
    /\ \A t \in Threads : th[t].pc \in LockedPcs => mutex = t
    /\ Cardinality({t \in Threads : th[t].pc \in LockedPcs}) <= 1

\* one thread dumps the cells while the other waits for the mutex to push
MutualExclusionWitness ==
    /\ At(1, "data_loop")
    /\ th[1].printed # <<>>
    /\ At(2, "push_lock")
    /\ mutex = 1

(* C7: PopFront on an empty buffer returns NETWORK_ERROR_BUFFER_EMPTY and    *)
(* leaves indexInput, indexOutput, dataBuffer and the caller's destination   *)
(* as they were.                                                             *)
EmptyRejection ==
    \A t \in Threads :
        (At(t, "pop_unlock")
         /\ th[t].entry.indexInput = th[t].entry.indexOutput)
            => /\ th[t].error = "NETWORK_ERROR_BUFFER_EMPTY"
               /\ BufferAsAtEntry(t)
               /\ th[t].dest \in {NULL, DestInit}

\* a pop with a destination on the freshly constructed buffer
EmptyRejectionWitness ==
    \E t \in Threads :
        /\ At(t, "pop_unlock")
        /\ th[t].error = "NETWORK_ERROR_BUFFER_EMPTY"
        /\ indexInput = 0
        /\ indexOutput = 0
        /\ \A p \in DOMAIN dataBuffer : dataBuffer[p] = Uninit
        /\ th[t].dest = DestInit

(* C8: Front on an empty buffer returns NETWORK_ERROR_BUFFER_EMPTY, the kind *)
(* PopFront returns on an empty buffer and not the NETWORK_ERROR_BUFFER_SIZE *)
(* kind PushBack returns on a full one, and leaves its destination,          *)
(* indexInput, indexOutput and dataBuffer unchanged.                         *)
FrontEmptyKind ==
    \A t \in Threads :
        (At(t, "front_unlock")
         /\ th[t].entry.indexInput = th[t].entry.indexOutput)
            => /\ th[t].error = "NETWORK_ERROR_BUFFER_EMPTY"
               /\ th[t].error # "NETWORK_ERROR_BUFFER_SIZE"
               /\ th[t].dest = DestInit
               /\ BufferAsAtEntry(t)

(* C9: a successful Front copies the oldest cell held, the one the next      *)
(* PopFront returns, and leaves indexInput, indexOutput and dataBuffer       *)
(* unchanged.                                                                *)
PeekNonDestructive ==
    \A t \in Threads :
        (At(t, "front_unlock") /\ Ok(t))
            => /\ BufferAsAtEntry(t)
               /\ queue # <<>>
               /\ th[t].dest = Head(queue)

(* C10: a PushBack on an empty buffer succeeds, and the PopFront that        *)
(* follows it succeeds and returns exactly the pushed cell, whatever the     *)
(* values of indexInput and indexOutput and in both modes.                   *)
RoundTrip ==
    \A t \in Threads :
        /\ (At(t, "push_unlock") /\ EntryOccupied(t) = 0) => Ok(t)
        /\ (At(t, "pop_unlock") /\ client[t].lastPush # NULL)
               => /\ Ok(t)
                  /\ th[t].dest # NULL => th[t].dest = client[t].lastPush

(* C11: under fair scheduling every call of PushBack, PopFront, Front,       *)
(* Print and DataPrint that was invoked returns, on the success path and on  *)
(* both error paths; a thread that has returned does not own the mutex, and  *)
(* no thread waits at sal_mutex_lock for a mutex it owns itself.             *)
LockPcs == {"push_lock", "pop_lock", "front_lock", "print_lock", "data_lock"}

NoBlocking ==
    /\ [](\A t \in Threads : th[t].pc \in LockPcs \cup {"idle"} => mutex # t)
    /\ \A t \in Threads : (th[t].pc # "idle") ~> (th[t].pc = "idle")

\* a Print has released the mutex and waits to take it again for DataPrint
\* while the other thread holds it on the error path of a PushBack
NoBlockingWitness ==
    /\ At(1, "data_lock")
    /\ th[1].shown # <<>>
    /\ At(2, "push_unlock")
    /\ th[2].error = "NETWORK_ERROR_BUFFER_SIZE"
    /\ mutex = 2

(* C12: when the allocation of the object or of dataBuffer fails the         *)
(* constructor returns NULL, the mutex it initialised has been destroyed     *)
(* and neither block remains allocated; a handle that is not null always     *)
(* refers to an object with its storage allocated and its mutex initialised. *)
ConstructionFailure ==
    /\ heap.last \in {"new_fail_object", "new_fail_storage"}
          => /\ heap.handle = "NULL"
             /\ heap.object # "live"
             /\ heap.storage # "live"
             /\ heap.mutexState # "initialised"
    /\ heap.last = "new_fail_storage"
          => heap.frees = [object |-> 1, storage |-> 0, mutex |-> 1]
    /\ heap.handle # "NULL"
          => /\ heap.object = "live"
             /\ heap.storage = "live"
             /\ heap.mutexState = "initialised"
             /\ DOMAIN dataBuffer = 0..(Capacity - 1)

\* the object was allocated, its mutex initialised, and dataBuffer's malloc failed
ConstructionFailureWitness ==
    /\ heap.last = "new_fail_storage"
    /\ heap.object = "freed"
    /\ heap.mutexState = "destroyed"
    /\ heap.handle = "NULL"

(* C13: NETWORK_DeleteRingBuffer on a live handle destroys the mutex and     *)
(* frees dataBuffer and the object, each exactly once, and sets the caller's *)
(* handle to NULL; on a handle that is already NULL, or with a NULL address, *)
(* it changes nothing: no block is freed and no mutex destroyed twice.       *)
\* a step that is no statement of a thread and ends a Delete on a NULL
\* handle or address
DeleteIsNoOp ==
    (UNCHANGED th /\ heap'.last \in {"delete_null_handle", "delete_null_address"})
        => /\ [heap' EXCEPT !.last = heap.last] = heap
           /\ heap'.last = "delete_null_handle" => heap.handle = "NULL"
           /\ UNCHANGED <<config, buffer, mutex, overrun, client, queue>>

DestroyIdempotent ==
    /\ [](/\ heap.frees.object <= 1
          /\ heap.frees.storage <= 1
          /\ heap.frees.mutex <= 1
          /\ heap.last = "delete_live"
                => /\ heap.handle = "NULL"
                   /\ heap.object = "freed"
                   /\ heap.storage = "freed"
                   /\ heap.mutexState = "destroyed"
                   /\ heap.frees = [object |-> 1, storage |-> 1, mutex |-> 1])
    /\ [][DeleteIsNoOp]_vars

\* a second NETWORK_DeleteRingBuffer through the handle a first one reset
DestroyIdempotentWitness ==
    /\ heap.last = "delete_null_handle"
    /\ heap.handle = "NULL"
    /\ heap.frees = [object |-> 1, storage |-> 1, mutex |-> 1]

(* C14: a PopFront that finds the buffer non-empty returns NETWORK_OK and    *)
(* leaves indexOutput advanced by exactly cellSize (unsigned addition),      *)
(* indexInput and dataBuffer as they were, whether its destination is NULL   *)
(* or not; with a NULL destination nothing is copied.                        *)
PopAndDiscard ==
    \A t \in Threads :
        (At(t, "pop_unlock") /\ th[t].entry.indexInput # th[t].entry.indexOutput)
            => /\ Ok(t)
               /\ indexOutput = UAdd(th[t].entry.indexOutput, cellSize)
               /\ indexInput = th[t].entry.indexInput
               /\ dataBuffer = th[t].entry.dataBuffer
               /\ th[t].dest # NULL => th[t].dest # DestInit
               /\ th[t].dest = NULL => th[t].buffPointor = Idle.buffPointor

\* a PopFront without destination has discarded the older of two cells
PopAndDiscardWitness ==
    \E t \in Threads :
        /\ At(t, "pop_unlock")
        /\ th[t].dest = NULL
        /\ Ok(t)
        /\ EntryOccupied(t) = 2 * cellSize
        /\ Occupied = cellSize
        /\ Len(queue) = 1

(* C15: on an overwriting buffer, with another thread calling concurrently,  *)
(* a PushBack holds the mutex from its capacity test to its write; nothing   *)
(* changes the buffer between its lock and its discard; it advances          *)
(* indexOutput by one cell at most, and only when the buffer was full when   *)
(* it took the mutex; the occupied byte count never exceeds the capacity.    *)
OverwriteAtomic ==
    isOverwriting # 0 =>
        /\ Occupied <= Capacity
        /\ \A t \in Threads :
              /\ th[t].pc \in {"push_check", "push_full"} => BufferAsAtEntry(t)
              /\ th[t].pc \in {"push_check", "push_full", "push_copy", "push_inc"}
                    => /\ mutex = t
                       /\ indexInput = th[t].entry.indexInput
              /\ th[t].pc \in {"push_copy", "push_inc", "push_unlock"}
                    => /\ Ok(t)
                       /\ indexOutput = IF EntryOccupied(t) = Capacity
                                        THEN UAdd(th[t].entry.indexOutput, cellSize)
                                        ELSE th[t].entry.indexOutput
              /\ th[t].pc \in {"push_copy", "push_inc"}
                    => Occupied <= Capacity - cellSize

\* a PushBack has discarded the oldest cell of a full buffer and is about to
\* write while the other thread waits for the mutex to pop
OverwriteAtomicWitness ==
    /\ isOverwriting # 0
    /\ At(1, "push_copy")
    /\ EntryOccupied(1) = Capacity
    /\ indexOutput = UAdd(th[1].entry.indexOutput, cellSize)
    /\ At(2, "pop_lock")
    /\ mutex = 1

(* C16: with the buffer classified as EMPTY, PARTIAL or FULL by its occupied *)
(* byte count, a successful PushBack that found it EMPTY or PARTIAL leaves   *)
(* it PARTIAL or FULL with one cell more and indexOutput untouched; a        *)
(* successful PushBack that found it FULL (overwriting) leaves it FULL with  *)
(* both counters advanced by cellSize; a successful PopFront found it        *)
(* PARTIAL or FULL and leaves it PARTIAL or EMPTY with one cell less; Front, *)
(* Print, DataPrint and every failed call leave both counters as they were;  *)
(* and the counters change in no other step.                                 *)
BufferState(occupied) ==
    IF occupied = 0 THEN "EMPTY"
    ELSE IF occupied = Capacity THEN "FULL" ELSE "PARTIAL"

IndicesAsAtEntry(t) ==
    /\ indexInput = th[t].entry.indexInput
    /\ indexOutput = th[t].entry.indexOutput

CallTransitions ==
    \A t \in Threads :
        /\ (At(t, "push_unlock") /\ Ok(t) /\ BufferState(EntryOccupied(t)) # "FULL")
              => /\ BufferState(Occupied) \in {"PARTIAL", "FULL"}
                 /\ Occupied = EntryOccupied(t) + cellSize
                 /\ indexOutput = th[t].entry.indexOutput
        /\ (At(t, "push_unlock") /\ Ok(t) /\ BufferState(EntryOccupied(t)) = "FULL")
              => /\ isOverwriting # 0
                 /\ BufferState(Occupied) = "FULL"
                 /\ indexInput = UAdd(th[t].entry.indexInput, cellSize)
                 /\ indexOutput = UAdd(th[t].entry.indexOutput, cellSize)
        /\ (At(t, "pop_unlock") /\ Ok(t))
              => /\ BufferState(EntryOccupied(t)) \in {"PARTIAL", "FULL"}
                 /\ BufferState(Occupied) \in {"PARTIAL", "EMPTY"}
                 /\ Occupied = EntryOccupied(t) - cellSize
                 /\ indexInput = th[t].entry.indexInput
        /\ (th[t].pc \in {"push_unlock", "pop_unlock"} /\ ~Ok(t))
              => IndicesAsAtEntry(t)
        /\ th[t].pc \in {"front_ptr", "front_copy", "front_unlock", "print_state",
                          "print_unlock", "data_loop", "data_unlock"}
              => IndicesAsAtEntry(t)

IndexSteps ==
    <<indexInput, indexOutput>>' # <<indexInput, indexOutput>>
        => \E t \in Threads :
              /\ th[t].pc \in {"push_full", "push_inc", "pop_inc"}
              /\ th'[t].pc # th[t].pc

StateMachine == []CallTransitions /\ [][IndexSteps]_vars

\* an overwriting PushBack found the buffer FULL and leaves it FULL
StateMachineWitness ==
    \E t \in Threads :
        /\ At(t, "push_unlock")
        /\ Ok(t)
        /\ numberOfCell > 1
        /\ BufferState(EntryOccupied(t)) = "FULL"
        /\ BufferState(Occupied) = "FULL"
        /\ indexOutput # th[t].entry.indexOutput

(* C17: indexInput and indexOutput never decrease: every step leaves each    *)
(* of them unchanged or adds cellSize to it, and the offset of every copy    *)
(* into or out of dataBuffer is the counter modulo numberOfCell * cellSize.  *)
IndexStep ==
    /\ indexInput' \in {indexInput, indexInput + cellSize}
    /\ indexOutput' \in {indexOutput, indexOutput + cellSize}

CopyOffsets ==
    \A t \in Threads :
        /\ At(t, "push_inc") => th[t].buffPointor = indexInput % Capacity
        /\ (At(t, "pop_inc") /\ th[t].dest # NULL)
              => th[t].buffPointor = indexOutput % Capacity
        /\ th[t].pc \in {"front_copy", "front_unlock"}
              => th[t].buffPointor = indexOutput % Capacity

IndexCounters == []CopyOffsets /\ [][IndexStep]_vars

(* C18: the physical offsets of the cells held (the counters indexOutput,    *)
(* indexOutput + cellSize, ... below indexInput, each modulo the capacity)   *)
(* are pairwise distinct, multiples of cellSize and inside dataBuffer; no    *)
(* memcpy leaves dataBuffer, and after the memcpy of a PushBack every cell   *)
(* accepted earlier and neither popped nor discarded is still intact.        *)
HeldOffsets ==
    [k \in 1..(Occupied \div cellSize) |->
        UAdd(indexOutput, (k - 1) * cellSize) % Capacity]

NoAliasing ==
    /\ \A j, k \in DOMAIN HeldOffsets : j # k => HeldOffsets[j] # HeldOffsets[k]
    /\ \A k \in DOMAIN HeldOffsets :
          /\ HeldOffsets[k] % cellSize = 0
          /\ HeldOffsets[k] + cellSize <= Capacity
    /\ ~overrun
    /\ \A t \in Threads :
          At(t, "push_inc") =>
              \A k \in 1..Len(queue) : k <= Len(Contents) => Contents[k] = queue[k]

(* C19: when a call of NETWORK_RingBuffPrint has printed its last cell, the  *)
(* counters it printed are the counters of the buffer whose cells it         *)
(* printed, the number of cells printed is (printed indexInput - printed     *)
(* indexOutput) / cellSize, and the cells are those of that range, oldest    *)
(* first, also when another thread calls PushBack or PopFront meanwhile.     *)
DumpSnapshot ==
    \A t \in Threads :
        (At(t, "data_unlock") /\ th[t].shown # <<>>)
            => /\ th[t].shown = <<indexOutput, indexInput>>
               /\ Len(th[t].printed) = USub(th[t].shown[2], th[t].shown[1]) \div cellSize
               /\ th[t].printed = Contents

(* C20: while the buffer object lives no step changes numberOfCell, cellSize *)
(* or isOverwriting, and no statement of NETWORK_RingBuffPrint or            *)
(* NETWORK_RingBuffDataPrint changes indexInput, indexOutput or dataBuffer:  *)
(* at the end of each half of the dump the buffer is as it was at its lock.  *)
DumpPcs == {"print_lock", "print_state", "print_unlock",
            "data_lock", "data_loop", "data_unlock"}

ConfigFrame ==
    (heap.object = "live" /\ heap'.object = "live") => UNCHANGED config

DumpFrame ==
    \A t \in Threads :
        (th[t].pc \in DumpPcs /\ th'[t] # th[t]) => UNCHANGED <<config, buffer>>

DumpAsAtEntry ==
    \A t \in Threads :
        th[t].pc \in {"print_state", "print_unlock", "data_loop", "data_unlock"}
            => BufferAsAtEntry(t)

FrameCondition == []DumpAsAtEntry /\ [][ConfigFrame /\ DumpFrame]_vars

\* a Print on a buffer holding one cell has printed the counters and the cell
FrameConditionWitness ==
    \E t \in Threads :
        /\ At(t, "data_unlock")
        /\ th[t].shown # <<>>
        /\ Len(th[t].printed) = 1
        /\ heap.object = "live"
        /\ Len(queue) = 1

====
